---- MODULE Spec2Model ----
(***************************************************************************)
(* XDR variable-length opaque data (src/src/opaque.rs): Opaque::from,      *)
(* SerializeOpaque::serialise_into / serialised_len, Opaque::try_from and  *)
(* pad_length, driven by a caller that owns one sink and one read cursor.  *)
(*                                                                         *)
(* Scaling.  TLC integers are 32-bit signed, so a u32 cannot be modelled   *)
(* at full width.  A byte has ByteBits bits instead of 8 and a u32 is      *)
(* still four bytes, so u32 arithmetic is modulo U32Mod = 2^(4*ByteBits);  *)
(* U32Mod stays a multiple of 4, as 2^32 is, so pad_length behaves at the  *)
(* top of the range exactly as it does at 2^32.  usize is the 64-bit one:  *)
(* wider than u32, and `start + len as usize` cannot overflow.             *)
(*                                                                         *)
(* Build profile.  A u32 `+` that overflows panics when the crate is built *)
(* with overflow checks (debug, `cargo test`) and wraps when it is built   *)
(* without (release).  overflowChecks is chosen in Init and never changes. *)
(***************************************************************************)
EXTENDS Integers, Sequences, FiniteSets

\* ------------------------------------------------------------------ bounds

\* Bits of one byte (8 in the program; see Scaling above).
ByteBits == 1

\* Longest of the "short" payloads the caller encodes.
SmallLen == 10

\* Largest capacity of a fixed-size sink (`&mut [u8]`).
MaxCap == 6

\* Most serialise_into calls on one sink.
MaxFields == 2

ByteMod == 2 ^ ByteBits

\* u32::MAX + 1.
U32Mod == ByteMod * ByteMod * ByteMod * ByteMod

Min(a, b) == IF a < b THEN a ELSE b

\* Payload lengths the caller uses: short ones, and the ones around u32::MAX
\* (U32Mod and U32Mod + 1 do not fit the 32-bit length field).
BodyLens == (0 .. SmallLen) \cup ((U32Mod - 5) .. (U32Mod + 1))

\* The payload of length n: bytes 1, 2, ..., wrapping within a byte.
Payload(n) == [i \in 1 .. n |-> i % ByteMod]

SinkCaps == 0 .. MaxCap

\* ----------------------------------------------------------------- helpers

\* `x as u32`.
AsU32(x) == x % U32Mod

\* byteorder WriteBytesExt::write_u32::<BigEndian>: the four bytes written.
BigEndian(n) ==
    << (n \div (ByteMod * ByteMod * ByteMod)) % ByteMod,
       (n \div (ByteMod * ByteMod)) % ByteMod,
       (n \div ByteMod) % ByteMod,
       n % ByteMod >>

\* byteorder ReadBytesExt::read_u32::<BigEndian>: the value of four bytes.
FromBigEndian(b) ==
    ((b[1] * ByteMod + b[2]) * ByteMod + b[3]) * ByteMod + b[4]

\* vec![0_u8; k]
Zeros(k) == [i \in 1 .. k |-> 0]

\* A u32 `a + b`: [ok, val]; not ok is the panic of a build with overflow checks.
AddU32(a, b, checks) ==
    IF a + b < U32Mod THEN [ok |-> TRUE, val |-> a + b]
    ELSE IF checks THEN [ok |-> FALSE, val |-> 0]
    ELSE [ok |-> TRUE, val |-> (a + b) % U32Mod]

\* pad_length without its early return: 4 for a multiple of 4.
pad_length_no_early_return(l) == 4 - (l % 4)

\* fn pad_length(l: u32) -> u32
pad_length(l) ==
    IF l % 4 = 0 THEN 0 ELSE 4 - (l % 4)

\* Opaque::from(data)
From(data) == [some |-> TRUE, body |-> data]

\* Opaque::len
OpaqueLen(o) == Len(o.body)

\* std::io::Write::write_all on the sink s: a Vec takes everything; a fixed
\* slice takes what fits and fails (WriteZero) when that is not everything.
write_all(s, bytes) ==
    LET room == IF s.kind = "Vec" THEN Len(bytes) ELSE s.cap - Len(s.data)
        n    == Min(Len(bytes), room)
    IN  [sink |-> [s EXCEPT !.data = s.data \o SubSeq(bytes, 1, n)],
         ok   |-> n = Len(bytes)]

\* SerializeOpaque::serialise_into(&self, buf): the sink afterwards, the
\* result, the set of writes that failed and the pad_length call made.
serialise_into(o, s) ==
    LET len  == AsU32(Len(o.body))
        w1   == write_all(s, BigEndian(len))
        w2   == write_all(w1.sink, o.body)
        fill == pad_length(len)
        w3   == write_all(w2.sink, Zeros(fill))
        f2   == IF w2.ok THEN {} ELSE {"payload"}
    IN  IF ~w1.ok
        THEN [sink |-> w1.sink, res |-> "IoError", failed |-> {"prefix"},
              pad |-> [some |-> FALSE, l |-> 0, ret |-> 0]]
        ELSE IF fill > 0 /\ ~w3.ok
        THEN [sink |-> w3.sink, res |-> "IoError", failed |-> f2 \cup {"pad"},
              pad |-> [some |-> TRUE, l |-> len, ret |-> fill]]
        ELSE [sink |-> IF fill > 0 THEN w3.sink ELSE w2.sink,
              res |-> "Ok", failed |-> f2,
              pad |-> [some |-> TRUE, l |-> len, ret |-> fill]]

\* SerializeOpaque::serialised_len(&self) -> u32
serialised_len(o, checks) ==
    LET len == AsU32(Len(o.body))
        sum == AddU32(len, pad_length(len), checks)
    IN  [res |-> IF sum.ok THEN "Ok" ELSE "Panic", val |-> sum.val,
         pad |-> [some |-> TRUE, l |-> len, ret |-> pad_length(len)]]

\* try_from with the slice end clamped to the buffer (`end.min(data.len())`)
\* instead of bounds-checked.
try_from_clamped(c, checks, eofPos) ==
    LET avail      == IF c.pos >= Len(c.buf) THEN 0 ELSE Len(c.buf) - c.pos
        len        == FromBigEndian(SubSeq(c.buf, c.pos + 1, c.pos + 4))
        start      == c.pos + 4
        end        == start + len
        padded_end == AddU32(pad_length(len), AsU32(end), checks)
        called     == [some |-> TRUE, l |-> len, ret |-> pad_length(len)]
    IN  IF avail < 4
        THEN [cur |-> [c EXCEPT !.pos = eofPos], res |-> "Err", body |-> << >>,
              pad |-> [some |-> FALSE, l |-> 0, ret |-> 0]]
        ELSE IF ~padded_end.ok
        THEN [cur |-> [c EXCEPT !.pos = start], res |-> "Panic", body |-> << >>,
              pad |-> called]
        ELSE [cur |-> [c EXCEPT !.pos = padded_end.val], res |-> "Ok",
              body |-> SubSeq(c.buf, start + 1, Min(end, Len(c.buf))),
              pad |-> called]

\* Opaque::try_from(c: &mut Cursor<&[u8]>).  eofPos is where a failed
\* read_u32 leaves the cursor (std leaves it in place or moves it to the end,
\* depending on its version).
try_from(c, checks, eofPos) ==
    LET avail      == IF c.pos >= Len(c.buf) THEN 0 ELSE Len(c.buf) - c.pos
        len        == FromBigEndian(SubSeq(c.buf, c.pos + 1, c.pos + 4))
        start      == c.pos + 4
        end        == start + len
        padded_end == AddU32(pad_length(len), AsU32(end), checks)
        called     == [some |-> TRUE, l |-> len, ret |-> pad_length(len)]
    IN  IF avail < 4
        THEN [cur |-> [c EXCEPT !.pos = eofPos], res |-> "Err", body |-> << >>,
              pad |-> [some |-> FALSE, l |-> 0, ret |-> 0]]
        ELSE IF ~padded_end.ok
        THEN [cur |-> [c EXCEPT !.pos = start], res |-> "Panic", body |-> << >>,
              pad |-> called]
        ELSE IF end > Len(c.buf)
        THEN [cur |-> [c EXCEPT !.pos = padded_end.val], res |-> "Panic",
              body |-> << >>, pad |-> called]
        ELSE [cur |-> [c EXCEPT !.pos = padded_end.val], res |-> "Ok",
              body |-> SubSeq(c.buf, start + 1, end), pad |-> called]

\* ------------------------------------------------------------------- state

VARIABLES
    overflowChecks, \* the build has overflow checks
    opaque,         \* the Opaque being encoded: [some, body]
    sink,           \* the Write sink: [kind, cap, data]; its position is Len(data)
    enc,            \* last serialise_into: [res, before, failed]
    frames,         \* payloads of the calls on this sink all of whose writes succeeded
    slen,           \* last serialised_len: [res, val]
    cursor,         \* the read cursor: [some, buf, pos]
    dec,            \* last try_from: [res, before, count]
    decoded,        \* payloads returned by the Ok decodes on this cursor, in order
    padCall         \* last call of pad_length: [some, l, ret]

vars == << overflowChecks, opaque, sink, enc, frames, slen, cursor, dec,
           decoded, padCall >>

NoOpaque == [some |-> FALSE, body |-> << >>]
NoEnc    == [res |-> "none", before |-> 0, failed |-> {}]
NoSlen   == [res |-> "none", val |-> 0]
NoCursor == [some |-> FALSE, buf |-> << >>, pos |-> 0]
NoDec    == [res |-> "none", before |-> 0, count |-> 0]
NoPad    == [some |-> FALSE, l |-> 0, ret |-> 0]

VecSink == [kind |-> "Vec", cap |-> 0, data |-> << >>]
SliceSink(cap) == [kind |-> "Slice", cap |-> cap, data |-> << >>]

Init ==
    /\ overflowChecks \in BOOLEAN
    /\ opaque = NoOpaque
    /\ sink = VecSink
    /\ enc = NoEnc
    /\ frames = << >>
    /\ slen = NoSlen
    /\ cursor = NoCursor
    /\ dec = NoDec
    /\ decoded = << >>
    /\ padCall = NoPad

\* The caller starts over with an empty sink: a Vec or a fixed slice.
NewSink ==
    /\ \E s \in {VecSink} \cup {SliceSink(c) : c \in SinkCaps} : sink' = s
    /\ opaque' = NoOpaque
    /\ enc' = NoEnc
    /\ frames' = << >>
    /\ slen' = NoSlen
    /\ cursor' = NoCursor
    /\ dec' = NoDec
    /\ decoded' = << >>
    /\ padCall' = NoPad
    /\ UNCHANGED overflowChecks

\* Opaque::from(payload).serialise_into(&mut sink)
Serialise ==
    /\ ~cursor.some
    /\ Len(frames) < MaxFields
    /\ enc.res \in {"none", "Ok"}
    /\ \E n \in BodyLens :
         LET o == From(Payload(n))
             r == serialise_into(o, sink)
         IN  /\ opaque' = o
             /\ sink' = r.sink
             /\ enc' = [res |-> r.res, before |-> Len(sink.data), failed |-> r.failed]
             /\ frames' = IF r.failed = {} THEN Append(frames, o.body) ELSE frames
             /\ padCall' = IF r.pad.some THEN r.pad ELSE padCall
    /\ slen' = NoSlen
    /\ UNCHANGED << overflowChecks, cursor, dec, decoded >>

\* opaque.serialised_len()
SerialisedLen ==
    /\ opaque.some
    /\ slen.res = "none"
    /\ LET r == serialised_len(opaque, overflowChecks)
       IN  /\ slen' = [res |-> r.res, val |-> r.val]
           /\ padCall' = r.pad
    /\ UNCHANGED << overflowChecks, opaque, sink, enc, frames, cursor, dec, decoded >>

\* Cursor::new(&sink bytes): the bytes written so far are read back.
NewCursor ==
    /\ ~cursor.some
    /\ enc.res # "none"
    /\ cursor' = [some |-> TRUE, buf |-> sink.data, pos |-> 0]
    /\ dec' = NoDec
    /\ decoded' = << >>
    /\ UNCHANGED << overflowChecks, opaque, sink, enc, frames, slen, padCall >>

\* Opaque::try_from(&mut cursor)
TryFrom ==
    /\ cursor.some
    /\ dec.res \in {"none", "Ok"}
    /\ dec.count <= MaxFields
    /\ \E eofPos \in {cursor.pos, Len(cursor.buf)} :
         LET r == try_from(cursor, overflowChecks, eofPos)
         IN  /\ cursor' = r.cur
             /\ dec' = [res |-> r.res, before |-> cursor.pos, count |-> dec.count + 1]
             /\ decoded' = IF r.res = "Ok" THEN Append(decoded, r.body) ELSE decoded
             /\ padCall' = IF r.pad.some THEN r.pad ELSE padCall
    /\ UNCHANGED << overflowChecks, opaque, sink, enc, frames, slen >>

Next ==
    \/ NewSink
    \/ Serialise
    \/ SerialisedLen
    \/ NewCursor
    \/ TryFrom

Spec == Init /\ [][Next]_vars

TypeOK ==
    /\ overflowChecks \in BOOLEAN
    /\ enc.res \in {"none", "Ok", "IoError"}
    /\ slen.res \in {"none", "Ok", "Panic"}
    /\ dec.res \in {"none", "Ok", "Err", "Panic"}
    /\ sink.kind = "Slice" => Len(sink.data) <= sink.cap

\* ------------------------------------------------------------------ claims

\* The wire format's pad(N) = (4 - N % 4) % 4.
PadOf(n) == (4 - (n % 4)) % 4

\* The payload length of the Opaque last serialised.
BodyLen == OpaqueLen(opaque)

\* The length prefix the last try_from read (it found four bytes to read).
DeclaredLen == FromBigEndian(SubSeq(cursor.buf, dec.before + 1, dec.before + 4))

\* The last try_from had at least four bytes left at the cursor.
PrefixRead == dec.count > 0 /\ dec.before + 4 <= Len(cursor.buf)

\* The bytes the last serialise_into appended to the sink.
Written == SubSeq(sink.data, enc.before + 1, Len(sink.data))

\* One payload of at most u32::MAX bytes was serialised into an empty sink,
\* every write succeeded, and the bytes written were decoded once from 0.
RoundTripDone ==
    /\ cursor.some
    /\ dec.count = 1
    /\ enc.res = "Ok"
    /\ enc.before = 0
    /\ enc.failed = {}
    /\ BodyLen < U32Mod
    /\ cursor.buf = sink.data

\* C1: decoding, from position 0, the bytes serialise_into wrote for a payload
\* b of at most u32::MAX bytes into an empty sink succeeds and yields exactly b.
C1_RoundTrip ==
    RoundTripDone => dec.res = "Ok" /\ decoded = << opaque.body >>

\* C2: when at least 4 bytes remain at the cursor and the declared length
\* reaches past the end of the buffer, try_from returns an error (no panic,
\* no Opaque).
C2_TruncatedIsError ==
    (PrefixRead /\ dec.before + 4 + DeclaredLen > Len(cursor.buf))
        => dec.res = "Err"

\* C3: when a write of the prefix, the payload or the padding fails,
\* serialise_into returns an error, never Ok.
C3_WriteFailurePropagates ==
    (enc.res # "none" /\ enc.failed # {}) => enc.res = "IoError"

\* C4: a successful serialise_into of a payload of at most u32::MAX bytes
\* appends exactly the big-endian length, the payload and pad(length) zero
\* bytes.
C4_WireForm ==
    (enc.res = "Ok" /\ BodyLen < U32Mod)
        => Written = BigEndian(BodyLen) \o opaque.body \o Zeros(PadOf(BodyLen))

\* C5: for a payload of at most u32::MAX bytes serialised_len returns
\* length + pad(length) without overflow or wrap-around, and a successful
\* serialise_into writes 4 + serialised_len() bytes.
C5_FrameSizeLaw ==
    /\ (slen.res # "none" /\ BodyLen < U32Mod)
         => slen.res = "Ok" /\ slen.val = BodyLen + PadOf(BodyLen)
    /\ (slen.res = "Ok" /\ enc.res = "Ok" /\ BodyLen < U32Mod)
         => Len(Written) = 4 + slen.val

\* C6: an Ok decode from position p of a well-formed field of declared length
\* len leaves the cursor at p + 4 + len + pad(len); so k decodes of the
\* concatenated encodings of b1..bk return b1..bk and end at the buffer's end.
C6_CursorAdvance ==
    /\ (dec.res = "Ok"
          /\ dec.before + 4 + DeclaredLen + PadOf(DeclaredLen) <= Len(cursor.buf))
         => cursor.pos = dec.before + 4 + DeclaredLen + PadOf(DeclaredLen)
    /\ (/\ cursor.some
        /\ sink.kind = "Vec"
        /\ \A i \in 1 .. Len(frames) : Len(frames[i]) < U32Mod
        /\ dec.count \in 1 .. Len(frames))
         => /\ dec.res = "Ok"
            /\ decoded = SubSeq(frames, 1, dec.count)
            /\ dec.count = Len(frames) => cursor.pos = Len(cursor.buf)

\* C7: for a payload longer than u32::MAX serialise_into fails with
\* EncodingTooLarge before any byte is written.
C7_TooLargeRejected ==
    (enc.res # "none" /\ BodyLen >= U32Mod)
        => enc.res = "EncodingTooLarge" /\ Len(sink.data) = enc.before

\* C8: a successful serialise_into advances the sink's position by
\* serialised_len() bytes.
C8_AdvancesBySerialisedLen ==
    (enc.res = "Ok" /\ slen.res # "none")
        => slen.res = "Ok" /\ Len(sink.data) = enc.before + slen.val

\* C9: for every u32 n, pad_length(n) is in 0..3, is 0 when n is a multiple of
\* 4 and 4 - n mod 4 otherwise, and n + pad_length(n) is a multiple of 4.
C9_PadLength ==
    padCall.some =>
        /\ padCall.l \in 0 .. (U32Mod - 1)
        /\ padCall.ret \in 0 .. 3
        /\ padCall.l % 4 = 0 => padCall.ret = 0
        /\ padCall.l % 4 # 0 => padCall.ret = 4 - (padCall.l % 4)
        /\ (padCall.l + padCall.ret) % 4 = 0

\* pad_length was called with u32::MAX and returned 1.
C9_Witness ==
    padCall.some /\ padCall.l = U32Mod - 1 /\ padCall.ret = 1

====
